---------------------------- MODULE Spec2Model ----------------------------
(***************************************************************************)
(* Model of app.js: the sidebar disclosure toggle and the footer year      *)
(* stamp.  The script is one synchronous run of five statements (lines     *)
(* 2, 3, 4, 5 and 11); the click listener it registers runs to completion  *)
(* on every later click of the trigger.                                    *)
(*                                                                         *)
(* The document is static markup: three optional nodes (#sidebar,          *)
(* #menuBtn, #year).  The panel carries a class list and aria-hidden, the  *)
(* trigger carries aria-expanded, the year node carries text.  Text is a   *)
(* sequence of one-character strings.  The clock counts months; month m    *)
(* lies in year m \div 12.                                                 *)
(***************************************************************************)
EXTENDS Integers, Sequences, FiniteSets, TLC

VARIABLES
    hasSidebar,    \* the markup has a node with id 'sidebar'
    hasBtn,        \* the markup has a node with id 'menuBtn'
    hasYear,       \* the markup has a node with id 'year'
    classes,       \* class list of the panel (set of tokens)
    ariaHidden,    \* aria-hidden attribute of the panel
    ariaExpanded,  \* aria-expanded attribute of the trigger
    yearText,      \* textContent of the year node
    clock,         \* system clock, in months
    sidebar,       \* const sidebar (line 2)
    menuBtn,       \* const menuBtn (line 3)
    listener,      \* a click listener is registered on the trigger
    pc,            \* index in Script of the next statement to run
    run,           \* "running", "completed" or "aborted" (uncaught throw)
    errors,        \* source lines at which an uncaught TypeError was raised
    clicks,        \* number of click events dispatched on the trigger
    lastEvent,     \* kind of the last UI event dispatched
    yearWrites,    \* number of writes to the year node's textContent
    stampClock,    \* clock value read by new Date() at line 11, or -1
    init0          \* classes, attributes and year text as the markup declared them

vars == <<hasSidebar, hasBtn, hasYear, classes, ariaHidden, ariaExpanded,
          yearText, clock, sidebar, menuBtn, listener, pc, run, errors,
          clicks, lastEvent, yearWrites, stampClock, init0>>

dom == <<classes, ariaHidden, ariaExpanded>>

-----------------------------------------------------------------------------
(* Bounds *)

MaxClicks == 4

MaxTicks == 3

-----------------------------------------------------------------------------
(* Values *)

Null == "null"

Node == "node"

Unset == "unset"

NoAttr == "<absent>"

\* attribute values the markup may carry
AttrValues == {NoAttr, "true", "false", "mixed"}

\* class tokens the markup may put on the panel
ClassTokens == {"open", "sidebar"}

\* texts the markup may put in the year node
MarkupYearTexts == {<< >>, <<"2", "0", "2", "0">>}

\* November 2025
FirstClock == 2025 * 12 + 10

Clocks == FirstClock .. (FirstClock + MaxTicks)

OtherEvents == {"outsideClick", "escape", "timer"}

-----------------------------------------------------------------------------
(* Platform functions the script calls *)

\* String(b) for a boolean b
String(b) == IF b THEN "true" ELSE "false"

\* mutant: the returned flag is used for the class only
ClassListToggleAddOnly(list, token) ==
    [list |-> list \cup {token}, result |-> TRUE]

\* DOMTokenList.toggle(token): remove and return false, or add and return true
ClassListToggle(list, token) ==
    IF token \in list
    THEN [list |-> list \ {token}, result |-> FALSE]
    ELSE [list |-> list \cup {token}, result |-> TRUE]

\* mutant: Date.prototype.getYear, which counts from 1900
GetYearLegacy(t) == (t \div 12) - 1900

\* Date.prototype.getFullYear of the time value t
GetFullYear(t) == t \div 12

DigitChars == <<"0", "1", "2", "3", "4", "5", "6", "7", "8", "9">>

RECURSIVE NumberToString(_)
\* ToString of a non-negative integer, as the textContent setter applies it
NumberToString(n) ==
    IF n < 10 THEN <<DigitChars[n + 1]>>
    ELSE Append(NumberToString(n \div 10), DigitChars[(n % 10) + 1])

\* getElementById: the node, or null
GetElementById(present) == IF present THEN Node ELSE Null

-----------------------------------------------------------------------------
(* The script *)

\* mutant: the year stamp moved above the binding
ScriptYearFirst ==
    <<"getSidebar", "getMenuBtn", "yearStamp", "ifMenuBtn", "addListener">>

\* the statements of the script in program order
Script ==
    <<"getSidebar", "getMenuBtn", "ifMenuBtn", "addListener", "yearStamp">>

At(stmt) == run = "running" /\ pc \in 1 .. Len(Script) /\ Script[pc] = stmt

\* control after the statement at pc, skipping `skip` further statements
Goto(skip) ==
    /\ pc' = pc + 1 + skip
    /\ run' = IF pc + 1 + skip > Len(Script) THEN "completed" ELSE "running"

\* an uncaught TypeError at source line `line` ends the run
Throw(line) ==
    /\ errors' = errors \cup {line}
    /\ run' = "aborted"
    /\ pc' = pc

\* mutant: the condition is dropped
IfConditionAlways(ref) == TRUE

\* truthiness of the reference tested at line 4
IfCondition(ref) == ref = Node

\* mutant: aria-hidden written without the negation
HiddenValueSame(isOpen) == String(isOpen)

\* the value written to aria-hidden (line 7)
HiddenValue(isOpen) == String(~isOpen)

\* mutant: aria-expanded written as the old state
ExpandedValueNegated(isOpen) == String(~isOpen)

\* the value written to aria-expanded (line 8)
ExpandedValue(isOpen) == String(isOpen)

\* mutant: the trigger attribute is flipped first, from its own value
ListenerExpandedFirst(d) ==
    LET isOpen == d.expanded # "true"
    IN  IF d.sidebar = Null
        THEN [classes |-> d.classes, hidden |-> d.hidden,
              expanded |-> ExpandedValue(isOpen), threw |-> TRUE]
        ELSE [classes  |-> IF isOpen THEN d.classes \cup {"open"}
                                     ELSE d.classes \ {"open"},
              hidden   |-> HiddenValue(isOpen),
              expanded |-> ExpandedValue(isOpen),
              threw    |-> FALSE]

\* mutant: optional chaining on the panel, String(undefined) on the trigger
ListenerOptionalChaining(d) ==
    IF d.sidebar = Null
    THEN [classes |-> d.classes, hidden |-> d.hidden,
          expanded |-> "undefined", threw |-> FALSE]
    ELSE LET t == ClassListToggle(d.classes, "open")
         IN  [classes  |-> t.list,
              hidden   |-> HiddenValue(t.result),
              expanded |-> ExpandedValue(t.result),
              threw    |-> FALSE]

\* the click listener (lines 5-9) applied to the document d
Listener(d) ==
    IF d.sidebar = Null
    THEN [classes |-> d.classes, hidden |-> d.hidden,
          expanded |-> d.expanded, threw |-> TRUE]
    ELSE LET t == ClassListToggle(d.classes, "open")
         IN  [classes  |-> t.list,
              hidden   |-> HiddenValue(t.result),
              expanded |-> ExpandedValue(t.result),
              threw    |-> FALSE]

-----------------------------------------------------------------------------
(* Initial states: any markup, script not yet run *)

Init ==
    /\ hasSidebar \in BOOLEAN
    /\ hasBtn \in BOOLEAN
    /\ hasYear \in BOOLEAN
    /\ classes \in (IF hasSidebar THEN SUBSET ClassTokens ELSE {{}})
    /\ ariaHidden \in (IF hasSidebar THEN AttrValues ELSE {NoAttr})
    /\ ariaExpanded \in (IF hasBtn THEN AttrValues ELSE {NoAttr})
    /\ yearText \in (IF hasYear THEN MarkupYearTexts ELSE {<< >>})
    /\ clock \in Clocks
    /\ sidebar = Unset
    /\ menuBtn = Unset
    /\ listener = FALSE
    /\ pc = 1
    /\ run = "running"
    /\ errors = {}
    /\ clicks = 0
    /\ lastEvent = "none"
    /\ yearWrites = 0
    /\ stampClock = -1
    /\ init0 = [classes |-> classes, hidden |-> ariaHidden,
                expanded |-> ariaExpanded, year |-> yearText]

-----------------------------------------------------------------------------
(* Statements of the script *)

\* line 2
GetSidebar ==
    /\ At("getSidebar")
    /\ sidebar' = GetElementById(hasSidebar)
    /\ Goto(0)
    /\ UNCHANGED <<hasSidebar, hasBtn, hasYear, dom, yearText, clock, menuBtn,
                   listener, errors, clicks, lastEvent, yearWrites,
                   stampClock, init0>>

\* line 3
GetMenuBtn ==
    /\ At("getMenuBtn")
    /\ menuBtn' = GetElementById(hasBtn)
    /\ Goto(0)
    /\ UNCHANGED <<hasSidebar, hasBtn, hasYear, dom, yearText, clock, sidebar,
                   listener, errors, clicks, lastEvent, yearWrites,
                   stampClock, init0>>

\* line 4: enter the block, or skip its one statement
IfMenuBtn ==
    /\ At("ifMenuBtn")
    /\ IF IfCondition(menuBtn) THEN Goto(0) ELSE Goto(1)
    /\ UNCHANGED <<hasSidebar, hasBtn, hasYear, dom, yearText, clock, sidebar,
                   menuBtn, listener, errors, clicks, lastEvent, yearWrites,
                   stampClock, init0>>

\* line 5: menuBtn.addEventListener('click', ...)
AddListener ==
    /\ At("addListener")
    /\ IF menuBtn = Node
       THEN listener' = TRUE /\ Goto(0) /\ UNCHANGED errors
       ELSE Throw(5) /\ UNCHANGED listener
    /\ UNCHANGED <<hasSidebar, hasBtn, hasYear, dom, yearText, clock, sidebar,
                   menuBtn, clicks, lastEvent, yearWrites, stampClock, init0>>

\* line 11: document.getElementById('year').textContent = new Date().getFullYear()
YearStamp ==
    /\ At("yearStamp")
    /\ IF GetElementById(hasYear) = Node
       THEN /\ yearText' = NumberToString(GetFullYear(clock))
            /\ yearWrites' = yearWrites + 1
            /\ stampClock' = clock
            /\ Goto(0)
            /\ UNCHANGED errors
       ELSE /\ Throw(11)
            /\ UNCHANGED <<yearText, yearWrites, stampClock>>
    /\ UNCHANGED <<hasSidebar, hasBtn, hasYear, dom, clock, sidebar, menuBtn,
                   listener, clicks, lastEvent, init0>>

-----------------------------------------------------------------------------
(* Events after the script's run *)

\* a click on the trigger; the listener, if registered, runs to completion
Click ==
    /\ run # "running"
    /\ hasBtn
    /\ clicks < MaxClicks
    /\ clicks' = clicks + 1
    /\ lastEvent' = "click"
    /\ IF listener
       THEN LET r == Listener([sidebar |-> sidebar, classes |-> classes,
                               hidden |-> ariaHidden,
                               expanded |-> ariaExpanded, year |-> yearText])
            IN  /\ classes' = r.classes
                /\ ariaHidden' = r.hidden
                /\ ariaExpanded' = r.expanded
                /\ errors' = IF r.threw THEN errors \cup {6} ELSE errors
       ELSE UNCHANGED <<dom, errors>>
    /\ UNCHANGED <<hasSidebar, hasBtn, hasYear, yearText, clock, sidebar,
                   menuBtn, listener, pc, run, yearWrites, stampClock, init0>>

\* mutant: Escape closes the panel
OtherEventEscapeCloses(e) ==
    /\ run # "running"
    /\ lastEvent' = e
    /\ classes' = IF e = "escape" THEN classes \ {"open"} ELSE classes
    /\ UNCHANGED <<hasSidebar, hasBtn, hasYear, ariaHidden, ariaExpanded,
                   yearText, clock, sidebar, menuBtn, listener, pc, run,
                   errors, clicks, yearWrites, stampClock, init0>>

\* any other event: the script registered no listener for it
OtherEvent(e) ==
    /\ run # "running"
    /\ lastEvent' = e
    /\ UNCHANGED <<hasSidebar, hasBtn, hasYear, dom, yearText, clock, sidebar,
                   menuBtn, listener, pc, run, errors, clicks, yearWrites,
                   stampClock, init0>>

\* the system clock advances by a month
Tick ==
    /\ clock < FirstClock + MaxTicks
    /\ clock' = clock + 1
    /\ UNCHANGED <<hasSidebar, hasBtn, hasYear, dom, yearText, sidebar,
                   menuBtn, listener, pc, run, errors, clicks, lastEvent,
                   yearWrites, stampClock, init0>>

Next ==
    \/ GetSidebar
    \/ GetMenuBtn
    \/ IfMenuBtn
    \/ AddListener
    \/ YearStamp
    \/ Click
    \/ \E e \in OtherEvents : OtherEvent(e)
    \/ Tick

Spec == Init /\ [][Next]_vars

-----------------------------------------------------------------------------
(* Vocabulary of the properties *)

isOpenNow == "open" \in classes

wasOpen == "open" \in init0.classes

loaded == run # "running"

\* the closed markup state: panel and trigger present, class absent,
\* aria-hidden="true", aria-expanded="false"
InitClosed ==
    /\ hasBtn
    /\ hasSidebar
    /\ "open" \notin init0.classes
    /\ init0.hidden = "true"
    /\ init0.expanded = "false"

\* the three reflections of the open state agree
Consistent ==
    /\ ariaExpanded \in {"true", "false"}
    /\ ariaHidden \in {"true", "false"}
    /\ isOpenNow <=> (ariaExpanded = "true")
    /\ (ariaExpanded = "true") <=> (ariaHidden = "false")
    /\ (ariaHidden = "true") <=> (ariaExpanded = "false")

DomUntouched ==
    /\ classes = init0.classes
    /\ ariaHidden = init0.hidden
    /\ ariaExpanded = init0.expanded

RECURSIVE StringToNumber(_)
\* the number a sequence of decimal digits denotes (0 for the empty text)
StringToNumber(s) ==
    IF s = << >> THEN 0
    ELSE LET last == s[Len(s)]
             d == CHOOSE i \in 0 .. 9 : DigitChars[i + 1] = last
         IN  10 * StringToNumber(SubSeq(s, 1, Len(s) - 1)) + d

-----------------------------------------------------------------------------
(* C1 *)

\* C1: in every state reached from the closed markup state by clicks of the
\* trigger, the panel has class 'open' iff aria-expanded is "true" iff
\* aria-hidden is "false"; aria-hidden is the negation of aria-expanded.
C1_ReflectionsAgree == InitClosed => Consistent

C1_Witness ==
    /\ InitClosed
    /\ clicks = 3
    /\ isOpenNow
    /\ ariaExpanded = "true"
    /\ ariaHidden = "false"

(* C2 *)

\* C2: with trigger and panel present, from any initial panel state, after n
\* clicks the panel's membership of class 'open' equals the initial one when
\* n is even and its inverse when n is odd.
C2_Parity ==
    (hasBtn /\ hasSidebar) =>
        (isOpenNow <=> (IF clicks % 2 = 0 THEN wasOpen ELSE ~wasOpen))

C2_Witness ==
    /\ hasBtn
    /\ hasSidebar
    /\ wasOpen
    /\ clicks = 3
    /\ ~isOpenNow

(* C3 *)

\* C3: from the closed state, one click yields exactly aria-hidden="false",
\* aria-expanded="true", class 'open' present; a second click returns exactly
\* to the initial triple.
C3_TwoClicksIdentity ==
    InitClosed =>
        /\ clicks = 1 =>
              /\ classes = init0.classes \cup {"open"}
              /\ ariaHidden = "false"
              /\ ariaExpanded = "true"
        /\ clicks = 2 =>
              /\ classes = init0.classes
              /\ ariaHidden = "true"
              /\ ariaExpanded = "false"

C3_Witness ==
    /\ InitClosed
    /\ clicks = 2
    /\ "sidebar" \in classes
    /\ DomUntouched

(* C4 *)

\* C4: if the trigger node is absent, binding is skipped without an error: no
\* listener is ever attached and the panel's class, aria-hidden and
\* aria-expanded never change, whatever events occur.
C4_MissingTriggerNoOp ==
    ~hasBtn =>
        /\ ~listener
        /\ 5 \notin errors
        /\ DomUntouched

C4_Witness ==
    /\ ~hasBtn
    /\ hasSidebar
    /\ loaded
    /\ menuBtn = Null
    /\ lastEvent = "escape"
    /\ ~listener

(* C5 *)

\* C5: when the year node exists its text is written exactly once, during the
\* script's run, with the year of the clock at that moment, whether or not
\* the trigger exists; nothing writes it again afterwards.
C5_YearStampedOnce ==
    /\ yearWrites <= 1
    /\ (hasYear /\ loaded) =>
          /\ run = "completed"
          /\ yearWrites = 1
          /\ stampClock >= 0
          /\ StringToNumber(yearText) * 12 <= stampClock
          /\ stampClock < (StringToNumber(yearText) + 1) * 12
    /\ (hasYear /\ yearWrites = 0) => yearText = init0.year

C5_Witness ==
    /\ hasYear
    /\ ~hasBtn
    /\ run = "completed"
    /\ yearWrites = 1
    /\ yearText = <<"2", "0", "2", "5">>
    /\ clock \div 12 = 2026
    /\ lastEvent = "timer"

(* C6 *)

\* C6: if the year node is missing, the year stamp is simply not produced and
\* the script's run completes without raising any error.
C6_MissingYearNoError ==
    (~hasYear /\ loaded) =>
        /\ run = "completed"
        /\ 11 \notin errors
        /\ yearWrites = 0

(* C7 *)

\* C7: the only step that changes the panel's class list, aria-hidden or
\* aria-expanded is a click of the trigger; the script's statements, the year
\* stamp, the clock and every other event leave all three unchanged.
C7_SingleWriter ==
    [][(dom' # dom) => (clicks' = clicks + 1 /\ lastEvent' = "click")]_vars

C7_Witness ==
    /\ loaded
    /\ hasYear
    /\ yearWrites = 1
    /\ clicks = 1
    /\ lastEvent = "escape"
    /\ ~DomUntouched
    /\ isOpenNow

(* C8 *)

\* C8: with trigger and panel present, from any pre-state (attributes missing
\* or inconsistent included) one click inverts membership of 'open', sets
\* aria-hidden to the string negating the new membership and aria-expanded to
\* the string of the new membership.
C8_ActivationEffect ==
    [][(clicks' = clicks + 1 /\ hasBtn /\ hasSidebar) =>
          /\ ("open" \in classes') <=> ~("open" \in classes)
          /\ classes' \ {"open"} = classes \ {"open"}
          /\ ariaHidden' = (IF "open" \in classes' THEN "false" ELSE "true")
          /\ ariaExpanded' = (IF "open" \in classes' THEN "true" ELSE "false")
      ]_vars

C8_Witness ==
    /\ hasBtn
    /\ hasSidebar
    /\ wasOpen
    /\ init0.hidden = NoAttr
    /\ init0.expanded = "mixed"
    /\ clicks = 1
    /\ ~isOpenNow
    /\ ariaHidden = "true"
    /\ ariaExpanded = "false"

(* C9 *)

\* C9: with the trigger present and the panel absent the listener is still
\* attached, every click fails at the read of the panel's class list before
\* any write, and aria-expanded (or any other attribute) never changes.
C9_MissingPanelFailsBeforeWrite ==
    (hasBtn /\ ~hasSidebar) =>
        /\ loaded => listener
        /\ DomUntouched
        /\ clicks > 0 => 6 \in errors

C9_Witness ==
    /\ hasBtn
    /\ ~hasSidebar
    /\ listener
    /\ clicks = 2
    /\ 6 \in errors
    /\ init0.expanded = "false"

(* C10 *)

\* C10: the listener is attached before the year stamp is attempted: with
\* trigger and panel present and the year node absent, the listener is bound
\* when the year stamp fails and every later click toggles the class and both
\* attributes as usual.
C10_ToggleSurvivesYearFailure ==
    (hasBtn /\ hasSidebar /\ ~hasYear /\ 11 \in errors) =>
        /\ listener
        /\ isOpenNow <=> (IF clicks % 2 = 0 THEN wasOpen ELSE ~wasOpen)
        /\ clicks > 0 => Consistent

C10_Witness ==
    /\ hasBtn
    /\ hasSidebar
    /\ ~hasYear
    /\ run = "aborted"
    /\ 11 \in errors
    /\ clicks = 1
    /\ isOpenNow
    /\ ariaHidden = "false"
    /\ ariaExpanded = "true"

=============================================================================
